---- MODULE Spec2Model ----
(***************************************************************************)
(* Model of the enterprise-ai-agent backend:                               *)
(*   - backend/orchestrator/orchestrator.py  (plan -> check -> execute ->  *)
(*     respond loop of Orchestrator.plan_and_execute, one invocation, and  *)
(*     several invocations on one event loop)                              *)
(*   - backend/security/auth.py              (token issue and validation)  *)
(*   - backend/api/main.py                   (POST /query)                 *)
(*   - backend/session/session_manager.py    (session store on Redis)      *)
(*                                                                         *)
(* JSON values are tagged records [t |-> tag, v |-> value]; a plan is a    *)
(* function from the field names the model's JSON object holds to such     *)
(* values.  Token time is counted in minutes, the unit of the token        *)
(* lifetimes; session time in seconds, the unit of session_timeout.        *)
(***************************************************************************)
EXTENDS Integers, Sequences, FiniteSets, TLC

VARIABLES
    \* ---- Orchestrator.plan_and_execute, one invocation ----
    pc,                \* position of the invocation
    user_permissions,  \* argument user_permissions (membership only is used)
    plan_text,         \* local of _create_plan: outcome of the planning call
    plan,              \* local plan (mutated in place by _execute_plan)
    created_plan,      \* the plan exactly as _create_plan returned it
    idx,               \* position of the for loop of _execute_plan (1-based)
    results,           \* local results of _execute_plan
    invoked,           \* history: handler invocations, in order
    model_calls,       \* history: chat.completions.create calls issued
    caught,            \* history: except clauses that handled an exception,
                       \* each with the fault it handled
    response_fault,    \* history: the response call failed
    outcome,           \* value returned by plan_and_execute
    \* ---- security/auth.py ----
    now,               \* datetime.utcnow(), in minutes
    issued,            \* history: tokens handed out, with issue time and request
    auth_result,       \* result of the last get_current_user / login call
    \* ---- api/main.py, one POST /query ----
    http_request,      \* the request: current_user, query, conversation_history
    http_response,     \* what process_query answers
    \* ---- session/session_manager.py, one session key of the Redis store ----
    redis,             \* the key: absent, or its value and expiry instant
    clock,             \* datetime.now() / the clock of the store, in seconds
    calls,             \* per caller: the SessionManager call it is inside
    begun,             \* history: number of calls begun
    elapses,           \* history: number of times the clock was advanced
    created,           \* history: create_session has returned
    ended,             \* history: end_session has returned
    writes,            \* history: number of SETEX commands of update calls
    last_writer,       \* history: the caller of the last such SETEX
    sent,              \* history: messages passed to update_conversation
    last_access,       \* history: instant of the last successful access
    lapsed,            \* history: a gap of session_timeout without access
    \* ---- several plan_and_execute invocations on one event loop ----
    tasks,             \* per request: where its task is, and the call it awaits
    queue,             \* work queue of the loop's default executor
    pool,              \* requests whose model call runs on a worker thread
    stuck              \* requests whose running model call never returns

orch_vars == <<pc, user_permissions, plan_text, plan, created_plan, idx, results,
               invoked, model_calls, caught, response_fault, outcome>>
auth_vars == <<now, issued, auth_result>>
\* what the steps of one part of the backend leave alone
http_vars == <<http_request, http_response>>
session_vars == <<redis, clock, calls, begun, elapses, created, ended, writes,
                  last_writer, sent, last_access, lapsed>>
loop_vars == <<tasks, queue, pool, stuck>>
beside_orch == <<auth_vars, http_vars, session_vars, loop_vars>>
beside_auth == <<orch_vars, http_vars, session_vars, loop_vars>>
beside_http == <<auth_vars, session_vars, loop_vars>>
beside_session == <<orch_vars, auth_vars, http_vars, loop_vars>>
beside_loop == <<orch_vars, auth_vars, http_vars, session_vars>>
vars == <<orch_vars, auth_vars, http_vars, session_vars, loop_vars>>

(***************************************************************************)
(* Bounds                                                                  *)
(***************************************************************************)
MaxActions == 3        \* longest "actions" list of a plan
MaxRequired == 2       \* longest "required_permissions" list of a plan
MaxTextLen == 4        \* longest planning reply, in tokens (SpecPlan)

(***************************************************************************)
(* JSON values                                                             *)
(***************************************************************************)
Null == [t |-> "null", v |-> <<>>]
Num(n) == [t |-> "num", v |-> n]
Str(s) == [t |-> "str", v |-> s]
List(s) == [t |-> "list", v |-> s]
Dict(f) == [t |-> "dict", v |-> f]
EmptyDict == Dict(<<>>)
\* marks a key the JSON object does not hold (never a value of a plan)
Absent == [t |-> "absent", v |-> <<>>]

\* dict.get(key, default)
Get(d, key, default) == IF key \in DOMAIN d THEN d[key] ELSE default

\* d[key] = value on a Python dict held as a function
SetItem(d, key, value) ==
    [k \in DOMAIN d \cup {key} |-> IF k = key THEN value ELSE d[k]]

SeqsUpTo(S, n) == UNION {[1..k -> S] : k \in 0..n}

(***************************************************************************)
(* Orchestrator: registry, inputs                                          *)
(***************************************************************************)
\* a registry with one key misspelt
AvailableActionsMisspelt ==
    {"search_database", "query_sql", "create_documents", "analyze_data",
     "get_recommendations"}

\* self.available_actions
available_actions ==
    {"search_database", "query_sql", "create_document", "analyze_data",
     "get_recommendations"}

\* action names a plan of the model may list: two registry entries and one
\* name the registry does not hold
PlanActionNames == {"search_database", "create_document", "send_email"}

\* permission names a plan may require and a caller may hold
Permissions == {"read", "write"}

\* the request context injected into every action's parameters
context == "request_context"

\* a "parameters" entry of one action: a mapping, or a value of another shape
ParamEntries == {Dict([query |-> "sales"]), Str("all")}

\* action names the "parameters" mapping of a plan may have an entry for: a
\* registry entry and the unknown name (create_document never has an entry)
ParamActionNames == {"search_database", "send_email"}

\* values of the plan's "parameters" field
ParameterValues ==
    {Null} \cup
    {Dict(f) : f \in UNION {[D -> ParamEntries] : D \in SUBSET ParamActionNames}}

\* values of the plan's "actions" field
ActionsValues == {Null} \cup {List(s) : s \in SeqsUpTo(PlanActionNames, MaxActions)}

\* values of the plan's "required_permissions" field
RequiredValues == {Null} \cup {List(s) : s \in SeqsUpTo(Permissions, MaxRequired)}

\* one JSON object the planning model may answer with: each of actions,
\* parameters and required_permissions present (with a value of any of the
\* shapes above) or absent
PlanWith(acts, params, req) ==
    LET present == {<<"actions", acts>>, <<"parameters", params>>,
                    <<"required_permissions", req>>}
        fields == {"intent"} \cup {p[1] : p \in {q \in present : q[2].t # "absent"}}
    IN [k \in fields |->
          CASE k = "intent" -> Str("search")
            [] k = "actions" -> acts
            [] k = "parameters" -> params
            [] k = "required_permissions" -> req]

(***************************************************************************)
(* Orchestrator._create_plan                                               *)
(***************************************************************************)
\* What the planning call can come back with: an exception of the client,
\* or a text.  A text is a sequence of tokens: "{" and "}" are the brace
\* characters, "x" is any text without braces that is not JSON, and "P" is
\* the member list of a JSON object (no braces of its own), whose content is
\* `body`.
NoReply == [kind |-> "none"]
FailedCall == [kind |-> "fail", message |-> "connection error"]
TextReply(text, body) == [kind |-> "text", text |-> text, body |-> body]

TextTokens == {"{", "}", "x", "P"}

\* str.find(ch): 0-based index of the first occurrence, -1 when there is none
Find(text, ch) ==
    IF \E i \in 1..Len(text) : text[i] = ch
    THEN (CHOOSE i \in 1..Len(text) :
            text[i] = ch /\ \A j \in 1..(i - 1) : text[j] # ch) - 1
    ELSE -1

\* a scan that stops at the first occurrence
RFindFirst(text, ch) == Find(text, ch)

\* str.rfind(ch): 0-based index of the last occurrence, -1 when there is none
RFind(text, ch) ==
    IF \E i \in 1..Len(text) : text[i] = ch
    THEN (CHOOSE i \in 1..Len(text) :
            text[i] = ch /\ \A j \in (i + 1)..Len(text) : text[j] # ch) - 1
    ELSE -1

\* text[start:end] for 0 <= start, end <= len(text)
Slice(text, start, end) == SubSeq(text, start + 1, end)

\* json.loads on a token sequence: "{}" is the empty object, "{P}" the object
\* with the members P stands for, everything else a JSONDecodeError
JsonLoads(tokens, body) ==
    IF tokens = <<"{", "}">> THEN [ok |-> TRUE, value |-> <<>>]
    ELSE IF tokens = <<"{", "P", "}">> THEN [ok |-> TRUE, value |-> body]
    ELSE [ok |-> FALSE, value |-> <<>>]

\* the plan of the except branch of _create_plan
FallbackPlan ==
    [k \in {"intent", "actions", "parameters", "required_permissions"} |->
       CASE k = "intent" -> Str("query")
         [] k = "actions" -> List(<<"search_database">>)
         [] k = "parameters" -> EmptyDict
         [] k = "required_permissions" -> List(<<"read">>)]

\* the try block of _create_plan from plan_text on: the parsed object, or
\* raised when the block raises (ValueError, JSONDecodeError, client error)
ExtractPlan(reply) ==
    IF reply.kind = "fail" THEN [raised |-> TRUE, value |-> <<>>]
    ELSE LET start_idx == Find(reply.text, "{")
             end_idx == RFind(reply.text, "}") + 1
         IN IF start_idx # -1 /\ end_idx > start_idx
            THEN LET parsed == JsonLoads(Slice(reply.text, start_idx, end_idx),
                                         reply.body)
                 IN [raised |-> ~parsed.ok, value |-> parsed.value]
            ELSE [raised |-> TRUE, value |-> <<>>]

\* the value _create_plan returns
CreatePlan(reply) ==
    LET got == ExtractPlan(reply)
    IN IF got.raised THEN FallbackPlan ELSE got.value

(***************************************************************************)
(* Orchestrator._check_permissions, outcomes, the outer except clause      *)
(***************************************************************************)
Raised(cls, message) == [raised |-> TRUE, cls |-> cls, message |-> message, value |-> FALSE]
Returned(value) == [raised |-> FALSE, cls |-> "", message |-> "", value |-> value]

\* a check that passes as soon as one required permission is held
CheckPermissionsAny(p, perms) ==
    LET required == Get(p, "required_permissions", List(<<>>))
    IN IF required.t = "list"
       THEN Returned(Len(required.v) = 0
                     \/ \E i \in 1..Len(required.v) : required.v[i] \in perms)
       ELSE Raised("TypeError", "object is not iterable")

\* all(perm in user_permissions for perm in required); iterating a value that
\* is no list (null) raises TypeError
CheckPermissions(p, perms) ==
    LET required == Get(p, "required_permissions", List(<<>>))
    IN IF required.t = "list"
       THEN Returned(\A i \in 1..Len(required.v) : required.v[i] \in perms)
       ELSE Raised("TypeError", "object is not iterable")

NoOutcome == [kind |-> "none"]

\* a failure payload that lists only the permissions the caller lacks
PermissionFailureMissingOnly(p) ==
    LET required == Get(p, "required_permissions", List(<<>>))
    IN [kind |-> "permission_failure",
        success |-> FALSE,
        error |-> "Insufficient permissions for requested action",
        required_permissions |->
          List(SelectSeq(required.v, LAMBDA perm : perm \notin user_permissions))]

\* the return of lines 50-54
PermissionFailure(p) ==
    [kind |-> "permission_failure",
     success |-> FALSE,
     error |-> "Insufficient permissions for requested action",
     required_permissions |-> Get(p, "required_permissions", List(<<>>))]

\* the return of lines 62-68
SuccessOutcome(response, p, res) ==
    [kind |-> "success", success |-> TRUE, response |-> response,
     plan |-> p, results |-> res]

GenericApology ==
    "I apologize, but I encountered an error processing your request. Please try again."

\* the return of lines 75-79
OrchestrationError(message) ==
    [kind |-> "orchestration_error", success |-> FALSE,
     error |-> <<"Orchestration error: ", message>>,
     response |-> GenericApology]

\* classes derived from Exception, as raised inside plan_and_execute
ExceptionClasses == {"TypeError", "AttributeError", "ValueError", "KeyError"}

\* an except clause narrowed to ValueError
OuterExceptValueErrorOnly(cls) == cls = "ValueError"

\* except Exception as e (line 70): does the clause handle an exception of cls
OuterExceptHandles(cls) == cls \in ExceptionClasses

\* an exception leaves a stage inside the try block of plan_and_execute
RaiseInTry(e) ==
    IF OuterExceptHandles(e.cls)
    THEN /\ pc' = "done"
         /\ outcome' = OrchestrationError(e.message)
         /\ caught' = Append(caught, [by |-> "plan_and_execute", fault |-> e.cls])
    ELSE /\ pc' = "raised"
         /\ outcome' = outcome
         /\ caught' = caught

(***************************************************************************)
(* Orchestrator._execute_plan, one pass of the for loop                    *)
(***************************************************************************)
\* plan.get("actions", []) as the for loop reads it
PlanActions(p) == Get(p, "actions", List(<<>>))

\* an injection that stores the fresh mapping of an action without an entry
\* back into the plan (setdefault)
InjectContextStoresFresh(p, action) ==
    LET parameters == Get(p, "parameters", EmptyDict)
    IN IF parameters.t # "dict"
       THEN Raised("AttributeError", "object has no attribute 'get'")
       ELSE LET params == Get(parameters.v, action, EmptyDict)
            IN IF params.t # "dict"
               THEN Raised("TypeError", "object does not support item assignment")
               ELSE Returned(
                      SetItem(p, "parameters",
                              Dict(SetItem(parameters.v, action,
                                           Dict(SetItem(params.v, "context", context))))))

\* lines 182-183: params = plan.get("parameters", {}).get(action, {});
\* params["context"] = context.  The value is the plan after the assignment
\* (params is the plan's own entry when the plan has one, a fresh mapping
\* otherwise).
InjectContext(p, action) ==
    LET parameters == Get(p, "parameters", EmptyDict)
    IN IF parameters.t # "dict"
       THEN Raised("AttributeError", "object has no attribute 'get'")
       ELSE LET params == Get(parameters.v, action, EmptyDict)
            IN IF params.t # "dict"
               THEN Raised("TypeError", "object does not support item assignment")
               ELSE IF action \in DOMAIN parameters.v
                    THEN Returned(
                           [p EXCEPT !["parameters"] =
                              Dict([parameters.v EXCEPT ![action] =
                                      Dict(SetItem(params.v, "context", context))])])
                    ELSE Returned(p)

\* a handler's return value, and the payload stored when it raises
Output(action) == [kind |-> "output", data |-> action]
ErrorPayload(message) == [kind |-> "error", data |-> message]

HandlerFault == "handler failed"

\* a loop that stores nothing for a handler that raises
StoreResultDropsError(res, action, handler_raises) ==
    IF handler_raises THEN res ELSE SetItem(res, action, [kind |-> "output", data |-> action])

\* a loop that keeps the first result of a name listed twice
StoreResultKeepsFirst(res, action, handler_raises) ==
    IF action \in DOMAIN res THEN res
    ELSE IF handler_raises
         THEN SetItem(res, action, [kind |-> "error", data |-> "handler failed"])
         ELSE SetItem(res, action, [kind |-> "output", data |-> action])

\* lines 185-189: the try around the handler call
StoreResult(res, action, handler_raises) ==
    IF handler_raises
    THEN SetItem(res, action, ErrorPayload(HandlerFault))
    ELSE SetItem(res, action, Output(action))

(***************************************************************************)
(* Orchestrator._generate_response                                         *)
(***************************************************************************)
ModelAnswer == <<"answer">>
Apology(message) ==
    <<"I apologize, but I encountered an error processing your request: ", message>>

\* an apology that leaves the error message out
GenerateResponseNoMessage(reply) ==
    IF reply.kind = "fail"
    THEN <<"I apologize, but I encountered an error processing your request: ", "">>
    ELSE <<"answer">>

\* the value _generate_response returns for the outcome of its model call
GenerateResponse(reply) ==
    IF reply.kind = "fail" THEN Apology(reply.message) ELSE ModelAnswer

(***************************************************************************)
(* plan_and_execute as a state machine.  The invocation yields at its      *)
(* awaits: the planning call, each handler, the response call.             *)
(***************************************************************************)
NoPlan == <<>>
NoResults == <<>>

InitOrch ==
    /\ pc = "start"
    /\ user_permissions \in SUBSET Permissions
    /\ plan_text = NoReply
    /\ plan = NoPlan
    /\ created_plan = NoPlan
    /\ idx = 0
    /\ results = NoResults
    /\ invoked = <<>>
    /\ model_calls = <<>>
    /\ caught = <<>>
    /\ response_fault = FALSE
    /\ outcome = NoOutcome

\* line 46 up to the await of lines 138-146: the planning call is issued
IssuePlanCall ==
    /\ pc = "start"
    /\ pc' = "plan_call"
    /\ model_calls' = Append(model_calls, "plan")
    /\ UNCHANGED <<user_permissions, plan_text, plan, created_plan, idx, results,
                   invoked, caught, response_fault, outcome, beside_orch>>

\* a planning stage that issues the call once more after a failed call
PlanCallReturnsRetrying(reply) ==
    /\ pc = "plan_call"
    /\ IF reply.kind = "fail" /\ model_calls = <<"plan">>
       THEN /\ pc' = "plan_call"
            /\ model_calls' = Append(model_calls, "plan")
            /\ UNCHANGED <<plan_text, plan, created_plan, caught>>
       ELSE /\ pc' = "planned"
            /\ plan_text' = reply
            /\ plan' = CreatePlan(reply)
            /\ created_plan' = CreatePlan(reply)
            /\ caught' = IF ExtractPlan(reply).raised
                         THEN Append(caught,
                                     [by |-> "_create_plan",
                                      fault |-> IF reply.kind = "fail"
                                                THEN "planning_call" ELSE "plan_text"])
                         ELSE caught
            /\ UNCHANGED model_calls
    /\ UNCHANGED <<user_permissions, idx, results, invoked,
                   response_fault, outcome, beside_orch>>

\* lines 148-167: the call is over, the plan is extracted or replaced
PlanCallReturns(reply) ==
    /\ pc = "plan_call"
    /\ pc' = "planned"
    /\ plan_text' = reply
    /\ plan' = CreatePlan(reply)
    /\ created_plan' = CreatePlan(reply)
    /\ caught' = IF ExtractPlan(reply).raised
                 THEN Append(caught,
                             [by |-> "_create_plan",
                              fault |-> IF reply.kind = "fail"
                                        THEN "planning_call" ELSE "plan_text"])
                 ELSE caught
    /\ UNCHANGED <<user_permissions, idx, results, invoked, model_calls,
                   response_fault, outcome, beside_orch>>

\* line 169: _create_plan returns, its locals are gone
ReturnPlan ==
    /\ pc = "planned"
    /\ pc' = "check"
    /\ plan_text' = NoReply
    /\ UNCHANGED <<user_permissions, plan, created_plan, idx, results, invoked,
                   model_calls, caught, response_fault, outcome, beside_orch>>

\* lines 49-54, the check raises
CheckRaises ==
    /\ pc = "check"
    /\ CheckPermissions(plan, user_permissions).raised
    /\ RaiseInTry(CheckPermissions(plan, user_permissions))
    /\ UNCHANGED <<user_permissions, plan_text, plan, created_plan, idx, results,
                   invoked, model_calls, response_fault, beside_orch>>

\* lines 49-54, the check fails
CheckRejects ==
    /\ pc = "check"
    /\ ~CheckPermissions(plan, user_permissions).raised
    /\ ~CheckPermissions(plan, user_permissions).value
    /\ pc' = "done"
    /\ outcome' = PermissionFailure(plan)
    /\ UNCHANGED <<user_permissions, plan_text, plan, created_plan, idx, results,
                   invoked, model_calls, caught, response_fault, beside_orch>>

\* lines 49 and 57, 178: the check passes, _execute_plan starts
CheckPasses ==
    /\ pc = "check"
    /\ ~CheckPermissions(plan, user_permissions).raised
    /\ CheckPermissions(plan, user_permissions).value
    /\ pc' = "exec"
    /\ idx' = 1
    /\ results' = NoResults
    /\ UNCHANGED <<user_permissions, plan_text, plan, created_plan, invoked,
                   model_calls, caught, response_fault, outcome, beside_orch>>

\* line 180: the value of "actions" cannot be iterated
ExecActionsNotIterable ==
    /\ pc = "exec"
    /\ PlanActions(plan).t # "list"
    /\ RaiseInTry(Raised("TypeError", "object is not iterable"))
    /\ UNCHANGED <<user_permissions, plan_text, plan, created_plan, idx, results,
                   invoked, model_calls, response_fault, beside_orch>>

\* lines 180-181: the action is not in the registry
ExecSkipsUnknown ==
    /\ pc = "exec"
    /\ PlanActions(plan).t = "list"
    /\ idx <= Len(PlanActions(plan).v)
    /\ PlanActions(plan).v[idx] \notin available_actions
    /\ idx' = idx + 1
    /\ UNCHANGED <<pc, user_permissions, plan_text, plan, created_plan, results,
                   invoked, model_calls, caught, response_fault, outcome, beside_orch>>

\* lines 182-183 raise: the parameters are no mapping
ExecParamsRaise ==
    /\ pc = "exec"
    /\ PlanActions(plan).t = "list"
    /\ idx <= Len(PlanActions(plan).v)
    /\ PlanActions(plan).v[idx] \in available_actions
    /\ InjectContext(plan, PlanActions(plan).v[idx]).raised
    /\ RaiseInTry(InjectContext(plan, PlanActions(plan).v[idx]))
    /\ UNCHANGED <<user_permissions, plan_text, plan, created_plan, idx, results,
                   invoked, model_calls, response_fault, beside_orch>>

\* lines 181-189: the handler of a registry action is awaited; it returns
\* or raises
ExecRunsAction(handler_raises) ==
    /\ pc = "exec"
    /\ PlanActions(plan).t = "list"
    /\ idx <= Len(PlanActions(plan).v)
    /\ LET action == PlanActions(plan).v[idx]
           injected == InjectContext(plan, action)
       IN /\ action \in available_actions
          /\ ~injected.raised
          /\ plan' = injected.value
          /\ invoked' = Append(invoked, [action |-> action, raised |-> handler_raises])
          /\ results' = StoreResult(results, action, handler_raises)
          /\ caught' = IF handler_raises
                       THEN Append(caught, [by |-> "_execute_plan",
                                            fault |-> "handler"])
                       ELSE caught
    /\ idx' = idx + 1
    /\ UNCHANGED <<pc, user_permissions, plan_text, created_plan, model_calls,
                   response_fault, outcome, beside_orch>>

\* line 191, line 60 up to the await of lines 233-241: the loop is over,
\* the response call is issued
IssueResponseCall ==
    /\ pc = "exec"
    /\ PlanActions(plan).t = "list"
    /\ idx > Len(PlanActions(plan).v)
    /\ pc' = "respond_call"
    /\ model_calls' = Append(model_calls, "response")
    /\ UNCHANGED <<user_permissions, plan_text, plan, created_plan, idx, results,
                   invoked, caught, response_fault, outcome, beside_orch>>

\* lines 243-247 and 62-68: the response call is over, the outcome returned
ResponseCallReturns(reply) ==
    /\ pc = "respond_call"
    /\ pc' = "done"
    /\ response_fault' = (reply.kind = "fail")
    /\ caught' = IF reply.kind = "fail"
                 THEN Append(caught, [by |-> "_generate_response",
                                      fault |-> "response_call"])
                 ELSE caught
    /\ outcome' = SuccessOutcome(GenerateResponse(reply), plan, results)
    /\ UNCHANGED <<user_permissions, plan_text, plan, created_plan, idx, results,
                   invoked, model_calls, beside_orch>>

\* the planning replies of the whole-loop specification that carry no plan
\* body: a failed call, a text without JSON, the empty object
BareReplies ==
    {FailedCall, TextReply(<<"x">>, NoPlan), TextReply(<<"{", "}">>, NoPlan)}

\* ... and every plan body, as a JSON object
PlanReply(acts, params, req) ==
    TextReply(<<"{", "P", "}">>, PlanWith(acts, params, req))

ResponseReplies == {FailedCall, TextReply(<<"x">>, NoPlan)}

NextOrch ==
    \/ IssuePlanCall
    \/ \E reply \in BareReplies : PlanCallReturns(reply)
    \/ /\ pc = "plan_call"
       /\ \E acts \in ActionsValues \cup {Absent},
             params \in ParameterValues \cup {Absent},
             req \in RequiredValues \cup {Absent} :
               PlanCallReturns(PlanReply(acts, params, req))
    \/ ReturnPlan
    \/ CheckRaises
    \/ CheckRejects
    \/ CheckPasses
    \/ ExecActionsNotIterable
    \/ ExecSkipsUnknown
    \/ ExecParamsRaise
    \/ \E handler_raises \in BOOLEAN : ExecRunsAction(handler_raises)
    \/ IssueResponseCall
    \/ \E reply \in ResponseReplies : ResponseCallReturns(reply)

(***************************************************************************)
(* _create_plan alone, over every reply text up to MaxTextLen tokens       *)
(***************************************************************************)
SamplePlans ==
    {PlanWith(List(<<"create_document">>), Absent, List(<<"write">>)),
     PlanWith(Null, Null, Absent)}

PlanReplies ==
    {FailedCall}
    \cup {TextReply(t, b) : t \in SeqsUpTo(TextTokens, MaxTextLen), b \in SamplePlans}

NextPlan ==
    \/ IssuePlanCall
    \/ /\ pc = "plan_call"
       /\ \E reply \in PlanReplies : PlanCallReturns(reply)
    \/ ReturnPlan

(***************************************************************************)
(* security/auth.py                                                        *)
(***************************************************************************)
\* settings.SECRET_KEY, and a key the service does not sign with
SECRET_KEY == "your-secret-key-change-in-production"
OtherKey == "some-other-secret"

\* pwd_context.hash / pwd_context.verify
Hash(password) == <<"bcrypt", password>>
verify_password(plain_password, hashed_password) == hashed_password = Hash(plain_password)

DemoEmail == "demo@example.com"
UnknownEmail == "nobody@example.com"

\* fake_users_db
fake_users_db ==
    [email \in {DemoEmail} |->
       [username |-> "demo", full_name |-> "Demo User", email |-> DemoEmail,
        hashed_password |-> Hash("demo123"), disabled |-> FALSE, role |-> "admin"]]

NoUser == [email |-> "none"]

\* timedelta(minutes=15) of create_access_token, settings.ACCESS_TOKEN_EXPIRE_MINUTES
DefaultExpireMinutes == 15
ACCESS_TOKEN_EXPIRE_MINUTES == 30

\* expires_delta: Optional[timedelta], in minutes
NoDelta == [given |-> FALSE, minutes |-> 0]
Delta(m) == [given |-> TRUE, minutes |-> m]

\* the HS256 signature of a claim set under a key
Sign(claims, key) == <<"HS256", key, claims>>

\* jwt.encode(claims, key, algorithm="HS256")
JwtEncode(claims, key) == [payload |-> claims, signature |-> Sign(claims, key)]

\* jwt.decode(token, key, algorithms=["HS256"]) at instant `at`: JWTError on
\* a signature that does not verify and on an exp that has passed
JwtDecode(token, key, at) ==
    IF token.signature # Sign(token.payload, key)
    THEN [ok |-> FALSE, payload |-> <<>>]
    ELSE IF "exp" \in DOMAIN token.payload /\ token.payload["exp"] < at
    THEN [ok |-> FALSE, payload |-> <<>>]
    ELSE [ok |-> TRUE, payload |-> token.payload]

\* a token signed with a key other than the one get_current_user reads
CreateAccessTokenOtherKey(data, expires_delta, at) ==
    LET expire == IF expires_delta.given /\ expires_delta.minutes # 0
                  THEN at + expires_delta.minutes
                  ELSE at + 15
    IN [payload |-> SetItem(data, "exp", expire),
        signature |-> <<"HS256", "some-other-secret", SetItem(data, "exp", expire)>>]

\* create_access_token(data, expires_delta) called at instant `at`; a
\* timedelta of zero is falsy
create_access_token(data, expires_delta, at) ==
    LET expire == IF expires_delta.given /\ expires_delta.minutes # 0
                  THEN at + expires_delta.minutes
                  ELSE at + DefaultExpireMinutes
    IN JwtEncode(SetItem(data, "exp", expire), SECRET_KEY)

\* responses
CredentialsException ==
    [status |-> 401, detail |-> "Could not validate credentials",
     www_authenticate |-> "Bearer", user |-> NoUser]
LoginException ==
    [status |-> 401, detail |-> "Incorrect email or password",
     www_authenticate |-> "Bearer", user |-> NoUser]
Authenticated(user) ==
    [status |-> 200, detail |-> "", www_authenticate |-> "", user |-> user]

\* a lookup that tells an unknown user apart
GetCurrentUserTellsUnknown(token, at) ==
    LET decoded == JwtDecode(token, SECRET_KEY, at)
    IN IF ~decoded.ok THEN CredentialsException
       ELSE IF "sub" \notin DOMAIN decoded.payload THEN CredentialsException
       ELSE IF decoded.payload["sub"] \notin DOMAIN fake_users_db
       THEN [status |-> 404, detail |-> "User not found",
             www_authenticate |-> "", user |-> NoUser]
       ELSE Authenticated(fake_users_db[decoded.payload["sub"]])

\* get_current_user(token) at instant `at`
get_current_user(token, at) ==
    LET decoded == JwtDecode(token, SECRET_KEY, at)
    IN IF ~decoded.ok THEN CredentialsException
       ELSE IF "sub" \notin DOMAIN decoded.payload THEN CredentialsException
       ELSE IF decoded.payload["sub"] \notin DOMAIN fake_users_db
       THEN CredentialsException
       ELSE Authenticated(fake_users_db[decoded.payload["sub"]])

MaxClock == 32         \* the clock stops here
MaxIssueAt == 1        \* tokens are issued up to this instant
MaxTokens == 2         \* tokens issued in one run

\* direct calls of create_access_token, as <<data, expires_delta>>: a stored
\* subject with no delta, a zero delta and a short delta; a subject outside
\* the store; no subject
DirectCalls ==
    {<<[sub |-> DemoEmail], NoDelta>>, <<[sub |-> DemoEmail], Delta(0)>>,
     <<[sub |-> DemoEmail], Delta(2)>>, <<[sub |-> UnknownEmail], Delta(2)>>,
     <<<<>>, Delta(2)>>}

NoAuthResult == [call |-> "none"]

InitAuth ==
    /\ now = 0
    /\ issued = {}
    /\ auth_result = NoAuthResult

\* time passes
Tick ==
    /\ now < MaxClock
    /\ now' = now + 1
    /\ UNCHANGED <<issued, auth_result, beside_auth>>

\* a direct call of create_access_token
CreateAccessToken(data, expires_delta) ==
    /\ now <= MaxIssueAt
    /\ Cardinality(issued) < MaxTokens
    /\ LET token == create_access_token(data, expires_delta, now)
       IN /\ issued' = issued \cup
               {[token |-> token, at |-> now, by |-> "caller", delta |-> expires_delta]}
          /\ auth_result' = [call |-> "create_access_token", token |-> token,
                             response |-> Authenticated(NoUser)]
    /\ UNCHANGED <<now, beside_auth>>

\* lines 81-83: user and verify_password(request.password, ...)
CredentialsAccepted(email, password) ==
    IF email \in DOMAIN fake_users_db
    THEN verify_password(password, fake_users_db[email].hashed_password)
    ELSE FALSE

\* POST /auth/login, refused (lines 81-88)
LoginRefused(email, password) ==
    /\ ~CredentialsAccepted(email, password)
    /\ auth_result' = [call |-> "login", token |-> <<>>, response |-> LoginException]
    /\ UNCHANGED <<now, issued, beside_auth>>

\* POST /auth/login, granted (lines 81-102)
LoginGranted(email, password) ==
    /\ now <= MaxIssueAt
    /\ Cardinality(issued) < MaxTokens
    /\ CredentialsAccepted(email, password)
    /\ LET user == fake_users_db[email]
           token == create_access_token([sub |-> user.email],
                                        Delta(ACCESS_TOKEN_EXPIRE_MINUTES), now)
       IN /\ issued' = issued \cup
               {[token |-> token, at |-> now, by |-> "login",
                 delta |-> Delta(ACCESS_TOKEN_EXPIRE_MINUTES)]}
          /\ auth_result' = [call |-> "login", token |-> token,
                             response |-> Authenticated(user)]
    /\ UNCHANGED <<now, beside_auth>>

\* what a client can present: a token it was given, the same claims signed
\* with another key, a token whose subject it has replaced
Resigned(token) == JwtEncode(token.payload, OtherKey)
Tampered(token) ==
    [payload |-> SetItem(token.payload, "sub", DemoEmail), signature |-> token.signature]
Presentable == UNION {{r.token, Resigned(r.token), Tampered(r.token)} : r \in issued}

\* the dependency get_current_user of a protected route
GetCurrentUser(token) ==
    /\ auth_result' = [call |-> "get_current_user", token |-> token,
                       response |-> get_current_user(token, now)]
    /\ UNCHANGED <<now, issued, beside_auth>>

NextAuth ==
    \/ Tick
    \/ \E call \in DirectCalls : CreateAccessToken(call[1], call[2])
    \/ \E email \in {DemoEmail, UnknownEmail}, password \in {"demo123", "letmein"} :
          LoginRefused(email, password)
    \/ \E email \in {DemoEmail, UnknownEmail}, password \in {"demo123", "letmein"} :
          LoginGranted(email, password)
    \/ \E token \in Presentable : GetCurrentUser(token)

(***************************************************************************)
(* api/main.py: POST /query                                                *)
(***************************************************************************)
\* a permission set looked up from the role of the user
QueryPermissionsByRole(current_user, query, conversation_history) ==
    IF current_user.role = "admin"
    THEN {"read", "write", "view_sensitive_data", "view_financial_data",
          "view_revenue_data", "view_sales_data", "analyze_data",
          "analyze_sales_data", "create_document", "create_documents",
          "access_admin_tools"}
    ELSE {"read"}

\* admin_permissions (lines 73-85); the orchestrator only tests membership
admin_permissions ==
    {"read", "write", "view_sensitive_data", "view_financial_data",
     "view_revenue_data", "view_sales_data", "analyze_data",
     "analyze_sales_data", "create_document", "create_documents",
     "access_admin_tools"}

\* the user_permissions argument of the call of lines 87-92
QueryPermissions(current_user, query, conversation_history) == admin_permissions

\* what Depends(get_current_user) may hand to process_query: the record of
\* the stored user, and a record with another email and role (the store of
\* the repository holds the first only; the second stands for any other
\* user a store may hold)
QueryUsers ==
    {fake_users_db[DemoEmail],
     [username |-> "viewer", full_name |-> "View Only", email |-> "viewer@example.com",
      hashed_password |-> Hash("viewer123"), disabled |-> FALSE, role |-> "viewer"]}

\* bodies of QueryRequest
Queries == {"show sales", "delete all records"}
Histories == {<<>>, <<[role |-> "user", content |-> "hello"]>>}

NoRequest == [kind |-> "none"]
NoResponse == [status |-> 0, content |-> <<>>]

InitHttp ==
    /\ http_request = NoRequest
    /\ http_response = NoResponse

\* a request has arrived at process_query and plan_and_execute is not yet
\* called
InitQuery ==
    /\ pc = "http"
    /\ user_permissions = {}
    /\ plan_text = NoReply
    /\ plan = NoPlan
    /\ created_plan = NoPlan
    /\ idx = 0
    /\ results = NoResults
    /\ invoked = <<>>
    /\ model_calls = <<>>
    /\ caught = <<>>
    /\ response_fault = FALSE
    /\ outcome = NoOutcome
    /\ http_request \in [kind : {"query"}, current_user : QueryUsers,
                          query : Queries, conversation_history : Histories]
    /\ http_response = NoResponse

\* lines 58-92: the context is built and plan_and_execute is called
ProcessQuery ==
    /\ pc = "http"
    /\ pc' = "start"
    /\ user_permissions' = QueryPermissions(http_request.current_user,
                                            http_request.query,
                                            http_request.conversation_history)
    /\ UNCHANGED <<plan_text, plan, created_plan, idx, results, invoked,
                   model_calls, caught, response_fault, outcome, http_vars,
                   beside_http>>

\* lines 95-102: final_answer, response, result or the whole result as text
FinalText(result) ==
    IF "response" \in DOMAIN result THEN result.response ELSE <<"str", result>>

\* lines 94-118: the answer is formatted; an exception that left
\* plan_and_execute becomes a 500
QueryResponds ==
    /\ pc \in {"done", "raised"}
    /\ http_request # NoRequest
    /\ pc' = "responded"
    /\ http_response' = IF pc = "done"
                        THEN [status |-> 200, content |-> FinalText(outcome)]
                        ELSE [status |-> 500, content |-> <<"detail">>]
    /\ UNCHANGED <<user_permissions, plan_text, plan, created_plan, idx, results,
                   invoked, model_calls, caught, response_fault, outcome,
                   http_request, beside_http>>

\* planning replies of the endpoint specification: no plan, or a plan whose
\* required permissions are inside or outside the list of lines 73-85
QueryPlanReplies ==
    BareReplies \cup
    {PlanReply(acts, params, req) :
       acts \in {Null, List(<<"search_database", "send_email">>)},
       params \in {Absent, Null},
       req \in {Null, List(<<"read">>), List(<<"read", "delete">>),
                List(<<"analyze_data", "create_documents">>)}}

NextQuery ==
    \/ ProcessQuery
    \/ IssuePlanCall
    \/ /\ pc = "plan_call"
       /\ \E reply \in QueryPlanReplies : PlanCallReturns(reply)
    \/ ReturnPlan
    \/ CheckRaises
    \/ CheckRejects
    \/ CheckPasses
    \/ ExecActionsNotIterable
    \/ ExecSkipsUnknown
    \/ ExecParamsRaise
    \/ \E handler_raises \in BOOLEAN : ExecRunsAction(handler_raises)
    \/ IssueResponseCall
    \/ \E reply \in ResponseReplies : ResponseCallReturns(reply)
    \/ QueryResponds

(***************************************************************************)
(* session/session_manager.py over one key of the Redis store.  A call of  *)
(* SessionManager is a sequence of Redis commands (GET, EXPIRE, SETEX,     *)
(* DELETE); a caller is between two commands of its call at `at`.          *)
(***************************************************************************)
\* self.session_timeout, in seconds
session_timeout == 3600

MaxCalls == 3          \* calls begun in one run
MaxElapses == 3        \* times the clock is advanced in one run

\* callers of the one SessionManager (threads or processes)
Workers == {"w1", "w2"}

NoKey == [present |-> FALSE]
None == [found |-> FALSE]

\* a datetime object, and the text isoformat() gives for it
Datetime(n) == [t |-> "datetime", v |-> n]
IsoFormat(n) == [t |-> "str", v |-> n]

\* Message objects a caller may pass; message.dict() has the same fields
\* and keeps the datetime object of timestamp
Messages ==
    {[role |-> "user", content |-> c, timestamp |-> Datetime(0), metadata |-> <<>>] :
       c \in {"hello", "show sales"}}

\* arguments of update_context and of get_conversation_history
ContextUpdates == {<<"topic", "sales">>, <<"region", "emea">>}
Limits == {0, 1, 10}

\* calls a caller may make on the session
SessionCalls ==
    {<<"get_session", <<>>>>, <<"get_context", <<>>>>}
    \cup {<<"update_conversation", m>> : m \in Messages}
    \cup {<<"update_context", u>> : u \in ContextUpdates}
    \cup {<<"get_conversation_history", l>> : l \in Limits}

\* session_data of create_session (lines 30-36)
NewSession(at) ==
    [user_profile |-> [user_id |-> "u1", role |-> "analyst"],
     conversation_history |-> <<>>,
     context |-> <<>>,
     created_at |-> IsoFormat(at),
     last_activity |-> IsoFormat(at)]

\* json.dumps(session_data): a text, or TypeError when the document holds a
\* datetime object (the encoder has no default for it)
JsonDumps(session_data) ==
    IF \E i \in 1..Len(session_data.conversation_history) :
         session_data.conversation_history[i].timestamp.t = "datetime"
    THEN Raised("TypeError", "Object of type datetime is not JSON serializable")
    ELSE Returned([json |-> session_data])

\* json.loads of a stored text
LoadSession(text) == text.json

\* an EXPIRE that leaves the expiry instant as it is
ExpireKeepsInstant(entry, at) == entry

\* redis.expire(session_id, self.session_timeout) on an existing key
Expire(entry, at) == [entry EXCEPT !.expires_at = at + session_timeout]

\* redis.setex(session_id, self.session_timeout, text)
Setex(text, at) == [present |-> TRUE, value |-> text, expires_at |-> at + session_timeout]

\* history[-limit:]
HistoryTail(history, limit) ==
    LET n == Len(history)
        start == IF limit > 0
                 THEN (IF n - limit > 0 THEN n - limit ELSE 0)
                 ELSE (IF 0 - limit < n THEN 0 - limit ELSE n)
    IN SubSeq(history, start + 1, n)

\* Message(**msg): the timestamp text is parsed back to a datetime
MessageOf(msg) == [msg EXCEPT !.timestamp = Datetime(msg.timestamp.v)]

\* lines 63-64
AppendedMessage(session_data, message, at) ==
    [session_data EXCEPT !.conversation_history = Append(@, message),
                         !.last_activity = IsoFormat(at)]

\* lines 87-88
UpdatedContext(session_data, update, at) ==
    [session_data EXCEPT !.context = SetItem(@, update[1], update[2]),
                         !.last_activity = IsoFormat(at)]

\* a caller outside any call.  `result` is what its last call returned;
\* the other fields are the locals of the call and, as history, what the
\* call found when it began and when it read
IdleCall ==
    [op |-> "none", at |-> "idle", arg |-> <<>>, read |-> None, session_data |-> None,
     result |-> None, read_at |-> 0, wrote |-> FALSE, after_end |-> FALSE,
     after_lapse |-> FALSE, appended |-> <<>>]

AllIdle == \A w \in Workers : calls[w].at = "idle"

InitSession ==
    /\ redis = NoKey
    /\ clock = 0
    /\ calls = [w \in Workers |-> IdleCall]
    /\ begun = 0
    /\ elapses = 0
    /\ created = FALSE
    /\ ended = FALSE
    /\ writes = 0
    /\ last_writer = "none"
    /\ sent = <<>>
    /\ last_access = 0
    /\ lapsed = FALSE

\* create_session (lines 26-45)
CreateSession(w) ==
    /\ ~created
    /\ calls[w].at = "idle"
    /\ ~JsonDumps(NewSession(clock)).raised
    /\ redis' = Setex(JsonDumps(NewSession(clock)).value, clock)
    /\ created' = TRUE
    /\ last_access' = clock
    /\ UNCHANGED <<clock, calls, begun, elapses, ended, writes, last_writer, sent,
                   lapsed, beside_session>>

\* a caller enters get_session, get_context, get_conversation_history,
\* update_conversation or update_context; each starts with get_session
BeginCall(w, call) ==
    /\ created
    /\ begun < MaxCalls
    /\ calls[w].at = "idle"
    /\ begun' = begun + 1
    /\ calls' = [calls EXCEPT ![w] =
                   [IdleCall EXCEPT !.op = call[1], !.arg = call[2], !.at = "get",
                                    !.after_end = ended, !.after_lapse = lapsed]]
    /\ UNCHANGED <<redis, clock, elapses, created, ended, writes, last_writer, sent,
                   last_access, lapsed, beside_session>>

\* what a call returns when get_session found nothing
ResultWhenAbsent(op) ==
    IF op \in {"get_conversation_history", "get_context"}
    THEN [found |-> FALSE, value |-> <<>>]
    ELSE None

\* line 49: session_data = self.redis.get(session_id); lines 51, 56
RedisGet(w) ==
    /\ calls[w].at = "get"
    /\ calls' = [calls EXCEPT ![w] =
                   IF redis.present
                   THEN [@ EXCEPT !.at = "expire", !.session_data = redis.value,
                                  !.read_at = writes]
                   ELSE [@ EXCEPT !.at = "idle",
                                  !.result = ResultWhenAbsent(calls[w].op)]]
    /\ sent' = IF redis.present /\ calls[w].op = "update_conversation"
               THEN Append(sent, calls[w].arg) ELSE sent
    /\ UNCHANGED <<redis, clock, begun, elapses, created, ended, writes, last_writer,
                   last_access, lapsed, beside_session>>

\* lines 53-54: the TTL is refreshed and the text parsed; then the body of
\* the call up to its return or its SETEX
RedisExpire(w) ==
    /\ calls[w].at = "expire"
    /\ redis' = IF redis.present THEN Expire(redis, clock) ELSE redis
    /\ last_access' = clock
    /\ LET session_data == LoadSession(calls[w].session_data)
           op == calls[w].op
       IN calls' = [calls EXCEPT ![w] =
            CASE op = "get_session" ->
                   [@ EXCEPT !.at = "idle", !.session_data = None,
                             !.result = [found |-> TRUE, value |-> session_data]]
              [] op = "get_context" ->
                   [@ EXCEPT !.at = "idle", !.session_data = None,
                             !.result = [found |-> TRUE,
                                         value |-> session_data.context]]
              [] op = "get_conversation_history" ->
                   [@ EXCEPT !.at = "idle", !.session_data = None,
                             !.appended = sent,
                             !.result =
                                [found |-> TRUE,
                                 value |->
                                   LET history ==
                                         HistoryTail(session_data.conversation_history,
                                                     calls[w].arg)
                                   IN [i \in 1..Len(history) |-> MessageOf(history[i])]]]
              [] op = "update_conversation" ->
                   [@ EXCEPT !.at = "setex",
                             !.read = session_data,
                             !.session_data =
                                AppendedMessage(session_data, calls[w].arg, clock)]
              [] op = "update_context" ->
                   [@ EXCEPT !.at = "setex",
                             !.read = session_data,
                             !.session_data =
                                UpdatedContext(session_data, calls[w].arg, clock)]]
    /\ UNCHANGED <<clock, begun, elapses, created, ended, writes, last_writer, sent,
                   lapsed, beside_session>>

\* a write that applies the caller's change to the context the store holds
\* at the time of the write
RedisSetexMerging(w) ==
    /\ calls[w].at = "setex"
    /\ LET merged == IF redis.present /\ calls[w].op = "update_context"
                     THEN UpdatedContext(LoadSession(redis.value), calls[w].arg, clock)
                     ELSE calls[w].session_data
           dumped == JsonDumps(merged)
       IN IF dumped.raised
          THEN /\ calls' = [calls EXCEPT ![w] =
                              [@ EXCEPT !.at = "idle", !.session_data = None,
                                        !.result = [found |-> TRUE, value |-> dumped]]]
               /\ UNCHANGED <<redis, writes, last_writer>>
          ELSE /\ redis' = Setex(dumped.value, clock)
               /\ writes' = writes + 1
               /\ last_writer' = w
               /\ calls' = [calls EXCEPT ![w] =
                              [@ EXCEPT !.at = "idle", !.session_data = None,
                                        !.wrote = TRUE,
                                        !.result = [found |-> TRUE, value |-> None]]]
    /\ UNCHANGED <<clock, begun, elapses, created, ended, sent, last_access, lapsed,
                   beside_session>>

\* lines 66-70 and 90-94: json.dumps(session_data), then SETEX; when
\* json.dumps raises, the call ends with the exception and nothing is stored
RedisSetex(w) ==
    /\ calls[w].at = "setex"
    /\ LET dumped == JsonDumps(calls[w].session_data)
       IN IF dumped.raised
          THEN /\ calls' = [calls EXCEPT ![w] =
                              [@ EXCEPT !.at = "idle", !.session_data = None,
                                        !.result = [found |-> TRUE, value |-> dumped]]]
               /\ UNCHANGED <<redis, writes, last_writer>>
          ELSE /\ redis' = Setex(dumped.value, clock)
               /\ writes' = writes + 1
               /\ last_writer' = w
               /\ calls' = [calls EXCEPT ![w] =
                              [@ EXCEPT !.at = "idle", !.session_data = None,
                                        !.wrote = TRUE,
                                        !.result = [found |-> TRUE, value |-> None]]]
    /\ UNCHANGED <<clock, begun, elapses, created, ended, sent, last_access, lapsed,
                   beside_session>>

\* end_session (lines 119-121)
EndSession(w) ==
    /\ created
    /\ begun < MaxCalls
    /\ calls[w].at = "idle"
    /\ begun' = begun + 1
    /\ redis' = NoKey
    /\ ended' = TRUE
    /\ calls' = [calls EXCEPT ![w] = [IdleCall EXCEPT !.op = "end_session"]]
    /\ UNCHANGED <<clock, elapses, created, writes, last_writer, sent, last_access,
                   lapsed, beside_session>>

\* time passes; the store drops the key at its expiry instant
Waits == {1, session_timeout - 1}

Elapse(d) ==
    /\ created
    /\ elapses < MaxElapses
    /\ elapses' = elapses + 1
    /\ clock' = clock + d
    /\ redis' = IF redis.present /\ redis.expires_at <= clock + d THEN NoKey ELSE redis
    /\ lapsed' = (lapsed \/ clock + d - last_access >= session_timeout)
    /\ UNCHANGED <<calls, begun, created, ended, writes, last_writer, sent,
                   last_access, beside_session>>

\* calls made one after the other by one caller: a call begins, and time
\* passes, only when no call is under way
NextSession ==
    \/ CreateSession("w1")
    \/ /\ AllIdle
       /\ \E call \in SessionCalls : BeginCall("w1", call)
    \/ RedisGet("w1")
    \/ RedisExpire("w1")
    \/ RedisSetex("w1")
    \/ EndSession("w1")
    \/ /\ AllIdle
       /\ \E d \in Waits : Elapse(d)

\* calls of several callers interleaved command by command, all within
\* one lifetime of the key
NextRace ==
    \/ \E w \in Workers : CreateSession(w)
    \/ \E w \in Workers, call \in SessionCalls : BeginCall(w, call)
    \/ \E w \in Workers : RedisGet(w)
    \/ \E w \in Workers : RedisExpire(w)
    \/ \E w \in Workers : RedisSetex(w)
    \/ \E w \in Workers : EndSession(w)

(***************************************************************************)
(* Several POST /query requests in one process.  Each request is a task of *)
(* the event loop; a task leaves the loop only at its two awaits of        *)
(* loop.run_in_executor(None, ...) (orchestrator.py lines 138-146 and      *)
(* 233-241), which hand the model call to a thread of the loop's default   *)
(* executor.  The handlers are coroutines without an await of their own,   *)
(* so check, execution and the next submission are one step of the loop.   *)
(***************************************************************************)
Requests == {"q1", "q2", "q3"}

\* threads of the default executor (min(32, cpu_count + 4), so five or more;
\* the model needs only more than one)
PoolWorkers == 2

\* well-shaped planning replies: no plan, a plan inside and a plan outside
\* the permissions of the endpoint
LoopPlanReplies ==
    {FailedCall,
     PlanReply(List(<<"search_database">>), Absent, List(<<"read">>)),
     PlanReply(List(<<"search_database">>), Absent, List(<<"delete">>))}

NewTask == [at |-> "start", call |-> "none", reply |-> NoReply, outcome |-> "none"]

InitLoop ==
    /\ tasks = [r \in Requests |-> NewTask]
    /\ queue = <<>>
    /\ pool = {}
    /\ stuck = {}

\* lines 46, 81-146: the task builds the prompt and submits the planning
\* call to the executor
TaskStarts(r) ==
    /\ tasks[r].at = "start"
    /\ tasks' = [tasks EXCEPT ![r] = [@ EXCEPT !.at = "queued", !.call = "plan"]]
    /\ queue' = Append(queue, r)
    /\ UNCHANGED <<pool, stuck, beside_loop>>

\* a pool that runs one call at a time
WorkerTakesOneAtATime(hangs) ==
    /\ queue # <<>>
    /\ pool = {}
    /\ hangs => stuck = {}
    /\ tasks' = [tasks EXCEPT ![Head(queue)] = [@ EXCEPT !.at = "running"]]
    /\ queue' = Tail(queue)
    /\ pool' = pool \cup {Head(queue)}
    /\ stuck' = IF hangs THEN stuck \cup {Head(queue)} ELSE stuck
    /\ UNCHANGED beside_loop

\* a free thread of the executor takes the oldest submitted call and runs
\* chat.completions.create; the call is one that returns, or (for at most
\* one call of the run) one that never does
WorkerTakes(hangs) ==
    /\ queue # <<>>
    /\ Cardinality(pool) < PoolWorkers
    /\ hangs => stuck = {}
    /\ tasks' = [tasks EXCEPT ![Head(queue)] = [@ EXCEPT !.at = "running"]]
    /\ queue' = Tail(queue)
    /\ pool' = pool \cup {Head(queue)}
    /\ stuck' = IF hangs THEN stuck \cup {Head(queue)} ELSE stuck
    /\ UNCHANGED beside_loop

\* the call of a request returns or raises on its thread; the thread is free
\* and the future of the await is done
CallReturns(r, reply) ==
    /\ r \in pool
    /\ r \notin stuck
    /\ reply \in IF tasks[r].call = "plan" THEN LoopPlanReplies ELSE ResponseReplies
    /\ pool' = pool \ {r}
    /\ tasks' = [tasks EXCEPT ![r] = [@ EXCEPT !.at = "back", !.reply = reply]]
    /\ UNCHANGED <<queue, stuck, beside_loop>>

\* the loop resumes the task.  After the planning call (lines 148-169, 49-60,
\* 176-241): the plan is made and checked against the endpoint's permission
\* list, and the task returns the permission failure or runs the handlers
\* and submits the response call.  After the response call (lines 243-247,
\* 62-68): the task returns the success payload.
TaskResumes(r) ==
    /\ tasks[r].at = "back"
    /\ IF tasks[r].call = "plan"
       THEN IF CheckPermissions(CreatePlan(tasks[r].reply), admin_permissions).value
            THEN /\ tasks' = [tasks EXCEPT ![r] =
                                [@ EXCEPT !.at = "queued", !.call = "response",
                                          !.reply = NoReply]]
                 /\ queue' = Append(queue, r)
            ELSE /\ tasks' = [tasks EXCEPT ![r] =
                                [@ EXCEPT !.at = "done", !.reply = NoReply,
                                          !.outcome = "permission_failure"]]
                 /\ UNCHANGED queue
       ELSE /\ tasks' = [tasks EXCEPT ![r] =
                           [@ EXCEPT !.at = "done", !.reply = NoReply,
                                     !.outcome = "success"]]
            /\ UNCHANGED queue
    /\ UNCHANGED <<pool, stuck, beside_loop>>

NextLoop ==
    \/ \E r \in Requests : TaskStarts(r)
    \/ \E hangs \in BOOLEAN : WorkerTakes(hangs)
    \/ \E r \in Requests, reply \in LoopPlanReplies \cup ResponseReplies :
          CallReturns(r, reply)
    \/ \E r \in Requests : TaskResumes(r)

\* the loop runs every task that is ready, an idle thread takes queued work,
\* and a call that is not stuck comes back
LoopFairness ==
    /\ \A r \in Requests : WF_vars(TaskStarts(r))
    /\ WF_vars(\E hangs \in BOOLEAN : WorkerTakes(hangs))
    /\ \A r \in Requests :
         WF_vars(\E reply \in LoopPlanReplies \cup ResponseReplies : CallReturns(r, reply))
    /\ \A r \in Requests : WF_vars(TaskResumes(r))

Init == InitOrch /\ InitAuth /\ InitHttp /\ InitSession /\ InitLoop

SpecOrch == Init /\ [][NextOrch]_vars
SpecPlan == Init /\ [][NextPlan]_vars
\* the token service alone: the orchestrator stays idle
InitTokens == Init /\ user_permissions = Permissions
SpecAuth == InitTokens /\ [][NextAuth]_vars
\* POST /query from the arrival of the request to its answer
InitEndpoint == InitQuery /\ InitAuth /\ InitSession /\ InitLoop
SpecQuery == InitEndpoint /\ [][NextQuery]_vars
\* the session store under sequential calls, and under interleaved calls
SpecSession == InitTokens /\ [][NextSession]_vars
SpecRace == InitTokens /\ [][NextRace]_vars
\* the requests of one process, without and with the scheduling of the loop
\* and of the executor
SpecLoop == InitTokens /\ [][NextLoop]_vars
SpecLoopFair == InitTokens /\ [][NextLoop]_vars /\ LoopFairness

(***************************************************************************)
(* Properties of the orchestration loop                                    *)
(***************************************************************************)
\* what the plan returned by _create_plan requires and lists
RequiredOfPlan ==
    IF "required_permissions" \in DOMAIN created_plan
    THEN created_plan["required_permissions"] ELSE List(<<>>)
ActionsOfPlan ==
    IF "actions" \in DOMAIN created_plan THEN created_plan["actions"] ELSE List(<<>>)
ParametersOfPlan ==
    IF "parameters" \in DOMAIN created_plan THEN created_plan["parameters"] ELSE Dict(<<>>)

FiveRegistryNames ==
    {"search_database", "query_sql", "create_document", "analyze_data",
     "get_recommendations"}

PlanIsBack == pc \notin {"start", "plan_call"}
BeforeCheck == pc \in {"start", "plan_call", "planned", "check"}
SomeRequiredMissing ==
    \E i \in 1..Len(RequiredOfPlan.v) : RequiredOfPlan.v[i] \notin user_permissions
\* _execute_plan has returned its results mapping
ExecReturned == pc = "respond_call" \/ (pc = "done" /\ outcome.kind = "success")

\* C1: with a required permission the caller lacks, no handler is ever invoked
\* and the invocation ends in a failure outcome; with every required
\* permission held, the plan is not rejected and _execute_plan is entered.
C1_PermissionGate ==
    (PlanIsBack /\ RequiredOfPlan.t = "list") =>
       IF SomeRequiredMissing
       THEN /\ invoked = <<>>
            /\ idx = 0
            /\ BeforeCheck \/ (pc = "done" /\ outcome.success = FALSE)
       ELSE /\ BeforeCheck \/ idx >= 1
            /\ pc = "done" => outcome.kind # "permission_failure"

\* a plan that lists a registry action and requires one permission the caller
\* holds and one it lacks has been rejected
C1_Witness ==
    /\ pc = "done"
    /\ outcome.kind = "permission_failure"
    /\ RequiredOfPlan.t = "list"
    /\ \E i \in 1..Len(RequiredOfPlan.v) : RequiredOfPlan.v[i] \in user_permissions
    /\ ActionsOfPlan.t = "list"
    /\ \E i \in 1..Len(ActionsOfPlan.v) : ActionsOfPlan.v[i] \in FiveRegistryNames

\* C2 as stated: the failure payload lists exactly the permissions the caller
\* lacks, none that the caller holds.
C2_ListsMissingOnly ==
    (pc = "done" /\ outcome.kind = "permission_failure") =>
       /\ outcome.required_permissions.t = "list"
       /\ {outcome.required_permissions.v[i] :
              i \in 1..Len(outcome.required_permissions.v)}
          = {RequiredOfPlan.v[i] : i \in 1..Len(RequiredOfPlan.v)} \ user_permissions

\* C2, amended: the failure payload carries the plan's required_permissions
\* list whole and in order, the permissions the caller holds included.
C2_ListsAllRequired ==
    (pc = "done" /\ outcome.kind = "permission_failure") =>
       /\ "required_permissions" \in DOMAIN created_plan
       /\ outcome.required_permissions = created_plan["required_permissions"]
       /\ SomeRequiredMissing

\* a rejection whose payload names a permission the caller holds
C2_Witness ==
    /\ pc = "done"
    /\ outcome.kind = "permission_failure"
    /\ \E i \in 1..Len(outcome.required_permissions.v) :
          outcome.required_permissions.v[i] \in user_permissions

\* C4: once _execute_plan has returned, every registry action of the plan was
\* invoked, a handler that raised left the error payload under its name
\* (unless the same name ran again later), and every other registry action of
\* the plan, listed before or after it, has its own result under its own key.
InvokedOf(action) == {k \in 1..Len(invoked) : invoked[k].action = action}
LastInvocation(action) ==
    CHOOSE k \in InvokedOf(action) : \A m \in InvokedOf(action) : m <= k
C4_FailureIsolated ==
    ExecReturned =>
       \A k \in 1..Len(invoked) :
          invoked[k].raised =>
             /\ invoked[k].action \in DOMAIN results
             /\ (k = LastInvocation(invoked[k].action)) =>
                   results[invoked[k].action] = [kind |-> "error", data |-> "handler failed"]
             /\ \A i \in 1..Len(ActionsOfPlan.v) :
                   LET other == ActionsOfPlan.v[i]
                   IN (other \in FiveRegistryNames /\ other # invoked[k].action) =>
                         /\ InvokedOf(other) # {}
                         /\ other \in DOMAIN results
                         /\ results[other] =
                              IF invoked[LastInvocation(other)].raised
                              THEN [kind |-> "error", data |-> "handler failed"]
                              ELSE [kind |-> "output", data |-> other]

\* three handlers ran, the second one raised, the ones before and after it
\* belong to another action and returned
C4_Witness ==
    /\ pc = "done"
    /\ outcome.kind = "success"
    /\ Len(invoked) = 3
    /\ invoked[2].raised /\ ~invoked[1].raised /\ ~invoked[3].raised
    /\ invoked[1].action # invoked[2].action
    /\ invoked[3].action # invoked[2].action
    /\ outcome.results[invoked[2].action].kind = "error"
    /\ outcome.results[invoked[1].action].kind = "output"

\* the plan has the shape the prompt asks for, as far as _execute_plan reads it
WellShapedForExec ==
    /\ ActionsOfPlan.t = "list"
    /\ ParametersOfPlan.t = "dict"
    /\ \A a \in DOMAIN ParametersOfPlan.v :
          (a \in FiveRegistryNames /\ \E i \in 1..Len(ActionsOfPlan.v) : ActionsOfPlan.v[i] = a)
             => ParametersOfPlan.v[a].t = "dict"

\* C5: the results mapping _execute_plan returns has exactly the registry
\* names among the plan's actions as its keys, each bound to an output or an
\* error payload; a name outside the registry raises nothing and stops
\* nothing (a well-shaped plan past the permission check always ends in the
\* success outcome).
C5_ResultKeys ==
    /\ ExecReturned =>
          /\ DOMAIN results =
               {ActionsOfPlan.v[i] : i \in 1..Len(ActionsOfPlan.v)} \cap FiveRegistryNames
          /\ \A a \in DOMAIN results : results[a].kind \in {"output", "error"}
    /\ (pc = "done" /\ idx >= 1 /\ WellShapedForExec) =>
          /\ outcome.kind = "success"
          /\ outcome.results = results
          /\ idx = Len(ActionsOfPlan.v) + 1

\* an unknown name listed ahead of a registry action: the call succeeded and
\* the results hold the registry action alone
C5_Witness ==
    /\ pc = "done"
    /\ outcome.kind = "success"
    /\ Len(ActionsOfPlan.v) >= 2
    /\ ActionsOfPlan.v[1] \notin FiveRegistryNames
    /\ ActionsOfPlan.v[2] \in FiveRegistryNames
    /\ DOMAIN outcome.results = {ActionsOfPlan.v[2]}

\* the plan has a shape that makes a stage of plan_and_execute raise
ShapeFaultHit ==
    \/ RequiredOfPlan.t # "list"
    \/ /\ ~SomeRequiredMissing
       /\ \/ ActionsOfPlan.t # "list"
          \/ \E i \in 1..Len(ActionsOfPlan.v) :
                /\ ActionsOfPlan.v[i] \in FiveRegistryNames
                /\ \/ ParametersOfPlan.t # "dict"
                   \/ /\ ActionsOfPlan.v[i] \in DOMAIN ParametersOfPlan.v
                      /\ ParametersOfPlan.v[ActionsOfPlan.v[i]].t # "dict"

\* C6: no exception leaves plan_and_execute; an invocation that is not over
\* can always take its next step, one that is over holds an outcome, and a
\* plan whose shape makes a stage raise ends in the uniform failure outcome.
C6_NeverRaises ==
    /\ pc # "raised"
    /\ pc # "done" => ENABLED NextOrch
    /\ pc = "done" =>
          /\ outcome.kind \in {"success", "permission_failure", "orchestration_error"}
          /\ ShapeFaultHit <=> outcome.kind = "orchestration_error"
          /\ outcome.kind = "orchestration_error" =>
                /\ outcome.success = FALSE
                /\ outcome.response =
                     "I apologize, but I encountered an error processing your request. Please try again."

\* a handler had already run when a later action's parameters made the loop
\* raise, and the caller got the uniform failure outcome
C6_Witness ==
    /\ pc = "done"
    /\ outcome.kind = "orchestration_error"
    /\ Len(invoked) >= 1

\* C7: when the response call fails, plan_and_execute returns the success
\* outcome with the plan, the per-action results and the apology that embeds
\* the error message.
C7_ResponseFaultRecovered ==
    (pc = "done" /\ response_fault) =>
       /\ outcome.kind = "success"
       /\ outcome.success = TRUE
       /\ outcome.response =
            <<"I apologize, but I encountered an error processing your request: ",
              "connection error">>
       /\ outcome.plan = plan
       /\ outcome.results = results
       /\ Len(model_calls) = 2

\* the response call failed after a handler had run
C7_Witness ==
    /\ pc = "done"
    /\ response_fault
    /\ Len(invoked) >= 1
    /\ outcome.kind = "success"

(***************************************************************************)
(* Properties of _create_plan (SpecPlan)                                   *)
(***************************************************************************)
\* the reply text holds a "{" with a "}" somewhere after it
BraceFollowed ==
    \E i, j \in 1..Len(plan_text.text) :
       i < j /\ plan_text.text[i] = "{" /\ plan_text.text[j] = "}"
FirstOpen ==
    CHOOSE i \in 1..Len(plan_text.text) :
       plan_text.text[i] = "{" /\ \A k \in 1..(i - 1) : plan_text.text[k] # "{"
LastClose ==
    CHOOSE j \in 1..Len(plan_text.text) :
       plan_text.text[j] = "}" /\ \A k \in (j + 1)..Len(plan_text.text) : plan_text.text[k] # "}"
\* the text from the first "{" to the last "}", both included
Payload == SubSeq(plan_text.text, FirstOpen, LastClose)

TheFixedFallback ==
    [k \in {"intent", "actions", "parameters", "required_permissions"} |->
       CASE k = "intent" -> [t |-> "str", v |-> "query"]
         [] k = "actions" -> [t |-> "list", v |-> <<"search_database">>]
         [] k = "parameters" -> [t |-> "dict", v |-> <<>>]
         [] k = "required_permissions" -> [t |-> "list", v |-> <<"read">>]]

\* C3: a failed call, a text without a "{" followed by a "}", and a payload
\* that does not parse all give the fixed fallback plan; every other reply
\* gives the parsed object.
C3_FallbackOrParsed ==
    pc = "planned" =>
       IF plan_text.kind = "fail" THEN plan = TheFixedFallback
       ELSE IF ~BraceFollowed THEN plan = TheFixedFallback
       ELSE IF ~JsonLoads(Payload, plan_text.body).ok THEN plan = TheFixedFallback
       ELSE plan = JsonLoads(Payload, plan_text.body).value

\* an object wrapped in commentary was parsed
C3_Witness ==
    /\ pc = "planned"
    /\ plan_text.kind = "text"
    /\ plan_text.text = <<"x", "{", "P", "}">>
    /\ plan = plan_text.body
    /\ plan # TheFixedFallback

(***************************************************************************)
(* Properties of the token service (SpecAuth)                              *)
(***************************************************************************)
\* the records of the tokens handed out that carry a subject
IssuedWithSubject == {r \in issued : "sub" \in DOMAIN r.token.payload}
\* the last call validated a token in the very instant it was issued
ValidatedAtIssue(r) ==
    /\ auth_result.call = "get_current_user"
    /\ auth_result.token = r.token
    /\ r.at = now
TheOneFault ==
    [status |-> 401, detail |-> "Could not validate credentials",
     www_authenticate |-> "Bearer", user |-> [email |-> "none"]]

\* C8 as stated: for every subject S, a token issued for S and validated at
\* once is accepted and identifies S.
C8_EverySubject ==
    \A r \in IssuedWithSubject :
       ValidatedAtIssue(r) =>
          /\ auth_result.response.status = 200
          /\ auth_result.response.user.email = r.token.payload["sub"]

\* C8, amended: for every subject S of the credential store, a token issued
\* for S and validated at once is accepted and returns the stored record of
\* S; for a subject outside the store the same validation fails with the
\* credentials fault.
C8_StoredSubject ==
    \A r \in IssuedWithSubject :
       ValidatedAtIssue(r) =>
          IF r.token.payload["sub"] = "demo@example.com"
          THEN /\ auth_result.response.status = 200
               /\ auth_result.response.user.email = "demo@example.com"
               /\ auth_result.response.user.role = "admin"
          ELSE auth_result.response = TheOneFault

\* a token made by a direct call for the stored subject was validated in the
\* instant of its issue and accepted
C8_Witness ==
    \E r \in IssuedWithSubject :
       /\ ValidatedAtIssue(r)
       /\ r.by = "caller"
       /\ r.token.payload["sub"] = "demo@example.com"
       /\ auth_result.response.status = 200

\* the lifetime the caller asked for: the delta, 15 minutes without one
RequestedLifetime(r) == IF r.delta.given THEN r.delta.minutes ELSE 15
\* the lifetime the token got: a zero delta counts as none
EffectiveLifetime(r) ==
    IF r.delta.given /\ r.delta.minutes # 0 THEN r.delta.minutes ELSE 15
Validates(token) == get_current_user(token, now).status = 200

\* the tokens handed out for a subject of the credential store
IssuedForStored ==
    {r \in issued : "sub" \in DOMAIN r.token.payload
                    /\ r.token.payload["sub"] = "demo@example.com"}

\* C9: a token issued at t with lifetime ttl (the caller's delta, 15 minutes
\* without one, 30 minutes at login) for a subject of the credential store
\* validates at every instant before t + ttl and fails at every instant
\* after it, whatever else the service has done meanwhile.
C9_ClockOnly ==
    \A r \in IssuedForStored :
       /\ now < r.at + RequestedLifetime(r) => Validates(r.token)
       /\ now > r.at + RequestedLifetime(r) => ~Validates(r.token)

\* C9, what the code keeps instead: the lifetime of a token is the caller's
\* delta only when it is not zero, and 15 minutes otherwise; up to issue time
\* + that lifetime the token validates, after it never, and no call of the
\* service changes this; login tokens last 30 minutes.
C9_EffectiveLifetimeKept ==
    /\ \A r \in IssuedForStored :
          Validates(r.token) <=> now <= r.at + EffectiveLifetime(r)
    /\ \A r \in issued :
          r.by = "login" =>
             /\ r.delta = [given |-> TRUE, minutes |-> 30]
             /\ r.token.payload["exp"] = r.at + 30

BadSignature(token) ==
    token.signature # <<"HS256", "your-secret-key-change-in-production", token.payload>>
Expired(token) == "exp" \in DOMAIN token.payload /\ token.payload["exp"] < now
NoSubject(token) == "sub" \notin DOMAIN token.payload
UnknownSubject(token) ==
    "sub" \in DOMAIN token.payload /\ token.payload["sub"] # "demo@example.com"

\* C10: a token with a bad signature, an expired token, a token without a
\* subject and a token for a subject outside the credential store are all
\* refused with the same fault; a refused validation never answers anything
\* else.
C10_OneFault ==
    /\ \A token \in Presentable :
          (BadSignature(token) \/ Expired(token) \/ NoSubject(token) \/ UnknownSubject(token))
             => get_current_user(token, now) = TheOneFault
    /\ (auth_result.call = "get_current_user" /\ auth_result.response.status # 200)
          => auth_result.response = TheOneFault

\* a correctly signed, unexpired token for a subject outside the store has
\* been refused
C10_Witness ==
    /\ auth_result.call = "get_current_user"
    /\ ~BadSignature(auth_result.token)
    /\ ~Expired(auth_result.token)
    /\ UnknownSubject(auth_result.token)
    /\ auth_result.response.status = 401

(***************************************************************************)
(* Properties of the orchestration loop: calls, order, frame               *)
(***************************************************************************)
CountOf(seq, x) == Cardinality({k \in 1..Len(seq) : seq[k] = x})
CaughtFaults(fault) == {k \in 1..Len(caught) : caught[k].fault = fault}

\* both model calls are over and one of them failed
PlanningCallFailed == pc = "planned" /\ plan_text.kind = "fail"
ModelCallFaults == {"planning_call", "response_call"}

\* C17 as stated: the planning call and the response call are each issued at
\* most once, and a failed call is caught exactly once, by the except clause
\* of plan_and_execute itself.
C17_CaughtAtOuterBoundary ==
    /\ CountOf(model_calls, "plan") <= 1
    /\ CountOf(model_calls, "response") <= 1
    /\ PlanningCallFailed => Cardinality(CaughtFaults("planning_call")) = 1
    /\ response_fault => Cardinality(CaughtFaults("response_call")) = 1
    /\ \A k \in 1..Len(caught) :
         caught[k].fault \in ModelCallFaults => caught[k].by = "plan_and_execute"

\* C17, amended: the planning call and the response call are each issued at
\* most once, also after a failure, and a failed call is caught exactly once,
\* by the except clause of the stage that made it (_create_plan for the
\* planning call, _generate_response for the response call); it never
\* reaches the except clause of plan_and_execute, whose failure payload is
\* therefore never the result of a failed model call alone.
C17_CaughtInsideStage ==
    /\ CountOf(model_calls, "plan") <= 1
    /\ CountOf(model_calls, "response") <= 1
    /\ Cardinality(CaughtFaults("planning_call")) <= 1
    /\ Cardinality(CaughtFaults("response_call")) <= 1
    /\ PlanningCallFailed => Cardinality(CaughtFaults("planning_call")) = 1
    /\ response_fault => Cardinality(CaughtFaults("response_call")) = 1
    /\ \A k \in 1..Len(caught) :
         /\ caught[k].fault = "planning_call" => caught[k].by = "_create_plan"
         /\ caught[k].fault = "response_call" => caught[k].by = "_generate_response"
         /\ caught[k].by = "plan_and_execute" => caught[k].fault \notin ModelCallFaults
    /\ (pc = "done" /\ response_fault) => outcome.kind = "success"

\* both calls of one invocation failed, each was made once, and the result
\* is still the success payload
C17_Witness ==
    /\ pc = "done"
    /\ model_calls = <<"plan", "response">>
    /\ response_fault
    /\ CaughtFaults("planning_call") # {}
    /\ CaughtFaults("response_call") # {}
    /\ outcome.kind = "success"

\* the listed actions the loop has gone past, and those of them the registry
\* holds, in list order
ActionsPassed ==
    IF idx >= 1 /\ ActionsOfPlan.t = "list"
    THEN SubSeq(ActionsOfPlan.v, 1, idx - 1) ELSE <<>>
KnownPassed == SelectSeq(ActionsPassed, LAMBDA a : a \in FiveRegistryNames)
PayloadOf(invocation) ==
    IF invocation.raised
    THEN [kind |-> "error", data |-> "handler failed"]
    ELSE [kind |-> "output", data |-> invocation.action]

\* C18: the stages run in the order plan, check, execute, respond: before
\* the check has passed no handler has run and only the planning call has
\* been issued; handlers run for the known actions in list order, once per
\* listing, and a name listed twice keeps the result of its later run; the
\* response call is issued only when every listed action has been passed;
\* after a permission failure no handler has run and no response call was
\* issued.
C18_StagesInOrder ==
    /\ pc = "start" => model_calls = <<>>
    /\ pc \in {"plan_call", "planned", "check", "exec"} => model_calls = <<"plan">>
    /\ pc = "respond_call" => model_calls = <<"plan", "response">>
    /\ model_calls \in {<<>>, <<"plan">>, <<"plan", "response">>}
    /\ BeforeCheck => invoked = <<>>
    /\ invoked # <<>> => RequiredOfPlan.t = "list" /\ ~SomeRequiredMissing
    /\ Len(invoked) = Len(KnownPassed)
    /\ \A k \in 1..Len(invoked) : invoked[k].action = KnownPassed[k]
    /\ DOMAIN results = {invoked[k].action : k \in 1..Len(invoked)}
    /\ \A a \in DOMAIN results : results[a] = PayloadOf(invoked[LastInvocation(a)])
    /\ CountOf(model_calls, "response") = 1 =>
         /\ ActionsOfPlan.t = "list"
         /\ idx = Len(ActionsOfPlan.v) + 1
         /\ RequiredOfPlan.t = "list" /\ ~SomeRequiredMissing
    /\ (pc = "done" /\ outcome.kind = "permission_failure") =>
         invoked = <<>> /\ model_calls = <<"plan">>

\* a name listed twice was run twice, first raising and then returning, and
\* the response call came after both runs
C18_Witness ==
    /\ pc = "done"
    /\ outcome.kind = "success"
    /\ Len(invoked) >= 2
    /\ invoked[1].action = invoked[2].action
    /\ invoked[1].raised /\ ~invoked[2].raised
    /\ results[invoked[1].action] = [kind |-> "output", data |-> invoked[1].action]
    /\ model_calls = <<"plan", "response">>

\* the known actions the plan lists
KnownListed ==
    IF ActionsOfPlan.t = "list"
    THEN {ActionsOfPlan.v[k] : k \in 1..Len(ActionsOfPlan.v)} \cap FiveRegistryNames
    ELSE {}

WithContext(entry) ==
    [t |-> "dict",
     v |-> [k \in DOMAIN entry.v \cup {"context"} |->
              IF k = "context" THEN "request_context" ELSE entry.v[k]]]

\* C19: when _execute_plan has returned, the plan differs from the one
\* _create_plan returned only in that the parameter entry of every known
\* listed action that has one also holds "context" bound to the request
\* context; the fields of the plan, the key set of "parameters" and the
\* entries of unknown or unlisted actions are as they were, and the success
\* payload carries that plan.
C19_OnlyContextAdded ==
    ExecReturned =>
      /\ DOMAIN plan = DOMAIN created_plan
      /\ \A k \in DOMAIN plan \ {"parameters"} : plan[k] = created_plan[k]
      /\ "parameters" \in DOMAIN created_plan =>
           IF created_plan["parameters"].t # "dict"
           THEN plan["parameters"] = created_plan["parameters"]
           ELSE /\ plan["parameters"].t = "dict"
                /\ DOMAIN plan["parameters"].v = DOMAIN created_plan["parameters"].v
                /\ \A a \in DOMAIN created_plan["parameters"].v :
                     plan["parameters"].v[a] =
                       IF a \in KnownListed
                       THEN WithContext(created_plan["parameters"].v[a])
                       ELSE created_plan["parameters"].v[a]
      /\ pc = "done" => outcome.plan = plan

\* a success whose plan lists a known action with an entry, a known action
\* without one, and has an entry for an unknown action
C19_Witness ==
    /\ pc = "done"
    /\ outcome.kind = "success"
    /\ KnownListed = {"search_database", "create_document"}
    /\ "parameters" \in DOMAIN created_plan
    /\ created_plan["parameters"].t = "dict"
    /\ DOMAIN created_plan["parameters"].v = {"search_database", "send_email"}
    /\ DOMAIN outcome.plan["parameters"].v["search_database"].v = {"query", "context"}
    /\ outcome.plan["parameters"].v["send_email"] = created_plan["parameters"].v["send_email"]

(***************************************************************************)
(* Properties of POST /query                                               *)
(***************************************************************************)
\* C15: whatever the user, the role, the query and the history of the
\* request, plan_and_execute is called with the same eleven permission
\* names, and a request that ends up with the fallback plan (which requires
\* "read" only) is never turned down by the permission check.
C15_FixedPermissionSet ==
    /\ pc # "http" =>
         user_permissions =
           {"read", "write", "view_sensitive_data", "view_financial_data",
            "view_revenue_data", "view_sales_data", "analyze_data",
            "analyze_sales_data", "create_document", "create_documents",
            "access_admin_tools"}
    /\ (created_plan = TheFixedFallback /\ outcome # NoOutcome) =>
         outcome.kind # "permission_failure"
    /\ (created_plan = TheFixedFallback /\ pc = "responded") =>
         /\ outcome.kind = "success"
         /\ http_response = [status |-> 200, content |-> outcome.response]

\* a request of the user who is no admin got the fallback plan and was
\* served
C15_Witness ==
    /\ pc = "responded"
    /\ http_request.current_user.role = "viewer"
    /\ created_plan = TheFixedFallback
    /\ outcome.kind = "success"
    /\ "search_database" \in DOMAIN outcome.results

(***************************************************************************)
(* Properties of the session store                                         *)
(***************************************************************************)
Returned_(w, op) == calls[w].op = op /\ calls[w].at = "idle"

\* C11: a get_conversation_history(session_id, limit) that found the session
\* returns min(N, limit) messages, the last ones passed to update_conversation
\* and in the order they were passed, N being the number of messages passed
\* to update_conversation while the session was live.
C11_LastMessages ==
    \A w \in Workers :
      (Returned_(w, "get_conversation_history") /\ calls[w].result.found) =>
        LET n == Len(calls[w].appended)
            limit == calls[w].arg
            k == IF n < limit THEN n ELSE limit
        IN /\ Len(calls[w].result.value) = k
           /\ \A i \in 1..k :
                calls[w].result.value[i].content = calls[w].appended[n - k + i].content

\* C12: under calls made one after the other, a session that was created and
\* not ended is in the store exactly as long as no gap of 3600 seconds
\* without a successful access has occurred; every successful access moves
\* its expiry to 3600 seconds after the access; after such a gap it is gone
\* for good, and get_session finds it exactly when no such gap came first.
C12_SlidingLifetime ==
    (created /\ ~ended) =>
      /\ redis.present <=> ~lapsed
      /\ redis.present => redis.expires_at = last_access + 3600
      /\ \A w \in Workers :
           Returned_(w, "get_session") =>
             (calls[w].result.found <=> ~calls[w].after_lapse)

\* the session is read at an instant past its first 3600 seconds, which it
\* outlived because it was accessed in between
C12_Witness ==
    /\ created /\ ~ended
    /\ clock >= 3600
    /\ redis.present
    /\ Returned_("w1", "get_session")
    /\ calls["w1"].result.found
    /\ redis.expires_at > 3600 + 3599

\* C13: a get_session that begins after end_session has returned finds
\* nothing, whatever calls were under way when end_session ran.
C13_EndIsFinal ==
    \A w \in Workers :
      (Returned_(w, "get_session") /\ calls[w].after_end) => ~calls[w].result.found

\* two update calls of different callers that both read before either wrote
\* and have both written, q last, with nothing written since
BothWrote(p, q) ==
    /\ p # q
    /\ calls[p].at = "idle" /\ calls[q].at = "idle"
    /\ calls[p].wrote /\ calls[q].wrote
    /\ calls[p].read_at = calls[q].read_at
    /\ writes = calls[q].read_at + 2
    /\ last_writer = q
    /\ redis.present

\* C14: when two update calls both read the session before either writes,
\* the stored session afterwards is the document of the call that wrote
\* last: what that call read with its own change applied and nothing else;
\* a context key only the other call set is not in it.
C14_LastWriterWins ==
    \A p, q \in Workers :
      BothWrote(p, q) =>
        LET stored == redis.value.json
            before == calls[q].read
            mine == calls[q].arg
            theirs == calls[p].arg
        IN /\ DOMAIN stored.context = DOMAIN before.context \cup {mine[1]}
           /\ \A k \in DOMAIN stored.context :
                stored.context[k] = IF k = mine[1] THEN mine[2] ELSE before.context[k]
           /\ stored.conversation_history = before.conversation_history
           /\ stored.user_profile = before.user_profile
           /\ stored.created_at = before.created_at
           /\ (theirs[1] # mine[1] /\ theirs[1] \notin DOMAIN before.context) =>
                theirs[1] \notin DOMAIN stored.context

\* two callers set different context keys from the same reading; the key of
\* the first writer is lost
C14_Witness ==
    \E p, q \in Workers :
      /\ BothWrote(p, q)
      /\ calls[p].arg[1] # calls[q].arg[1]
      /\ DOMAIN redis.value.json.context = {calls[q].arg[1]}

(***************************************************************************)
(* Properties of concurrent requests                                       *)
(***************************************************************************)
Completed(r) == tasks[r].at = "done"

\* C16: a request whose model call never returns stays inside that call for
\* ever (nothing times it out or cancels it), and every other request, whose
\* calls do return, runs to completion.
C16_OthersComplete ==
    /\ [](\A r \in stuck : tasks[r].at = "running" /\ r \in pool)
    /\ \A r \in Requests : <>(r \in stuck \/ Completed(r))

\* one request hangs in a call while the two others, which were in flight
\* with it, have completed, one of them after both of its calls
C16_Witness ==
    /\ stuck # {}
    /\ \A r \in Requests \ stuck : Completed(r)
    /\ \E r \in Requests \ stuck : tasks[r].outcome = "success"
    /\ \A r \in stuck : tasks[r].call = "response"

====
